---------------------------- MODULE Spec2Model ----------------------------
(***************************************************************************)
(* Tender-alerts: the discovery-and-qualification pipeline.                *)
(*                                                                         *)
(*   fetchAdaptationTenders  (three variants: the seenIds loop of          *)
(*                            part_001:55, the "MVP" loop of part_001:675  *)
(*                            and the Map-based one of                     *)
(*                            lib/contracts-finder.js:72)                  *)
(*   hasFutureDeadline, isRelevantAdaptationTender                         *)
(*   qualifyTender           (part_001:190, repeated at 519 and 765)       *)
(*                                                                         *)
(* JavaScript values are tagged records, so that null, undefined, numbers  *)
(* and strings keep their own truthiness and coercions.  The string        *)
(* functions (toLowerCase, includes, new Date) work on the characters of   *)
(* a string, so that they are computed and not assumed.                    *)
(***************************************************************************)
EXTENDS Integers, Sequences, FiniteSets, Bags, TLC

VARIABLES
    pc,          \* position of the running function
    rawRelease,  \* the upstream release the tender argument was normalized from
    tender,      \* qualifyTender: the tender argument
    profile,     \* qualifyTender: the profile argument
    result,      \* qualifyTender: the value the call resolved to
    calls,       \* history: the calls of qualifyTender made so far, with their outcomes
    variant,     \* fetchAdaptationTenders: which variant runs
    locIdx,      \* fetchAdaptationTenders: index of the next location of the for loop
    allTenders,  \* fetchAdaptationTenders: const allTenders = []
    seenIds,     \* fetchAdaptationTenders: const seenIds = new Set()
    now,         \* the clock new Date() reads
    uniqueTenders, \* fetchAdaptationTenders (lib): const uniqueTenders
    returned,    \* fetchAdaptationTenders: the list the call resolved to
    fetched,     \* history: the number of releases received so far
    firstSeen,   \* history: for each id, the first tender normalized with it, in order
    evalAt,      \* history: for each element of allTenders, the clock hasFutureDeadline read
    response,    \* history: the response the last query got, where a specification keeps it
    req,         \* handler: the request (its method, the profile of its body)
    res          \* handler: the status and the body it answered with

vars == <<pc, rawRelease, tender, profile, result, calls, variant, locIdx, allTenders, seenIds,
          now, uniqueTenders, returned, fetched, firstSeen, evalAt, response, req, res>>

handlerVars == <<req, res>>
qualifyVars == <<rawRelease, tender, profile, result, calls>>
fetchVars ==
    <<variant, locIdx, allTenders, seenIds, now, uniqueTenders, returned, fetched,
      firstSeen, evalAt, response>>

-----------------------------------------------------------------------------
(* JavaScript values *)

JUndefined == [t |-> "undefined"]
JNull == [t |-> "null"]
JNaN == [t |-> "nan"]
JNum(n) == [t |-> "number", v |-> n]
JStr(s) == [t |-> "string", v |-> s]

\* ToBoolean: undefined, null, NaN, 0 and "" are falsy.
Truthy(x) ==
    CASE x.t = "undefined" -> FALSE
      [] x.t = "null" -> FALSE
      [] x.t = "nan" -> FALSE
      [] x.t = "number" -> x.v # 0
      [] x.t = "string" -> x.v # ""

\* a || b
JsOr(a, b) == IF Truthy(a) THEN a ELSE b

\* ToNumber on the values a numeric field can hold: undefined is NaN, null is 0.
ToNumber(x) ==
    CASE x.t = "number" -> x
      [] x.t = "nan" -> JNaN
      [] x.t = "null" -> JNum(0)
      [] x.t = "undefined" -> JNaN

\* a >= k and a < k for a number k: false whenever a converts to NaN.
JsGE(a, k) == LET n == ToNumber(a) IN n.t = "number" /\ n.v >= k
JsLT(a, k) == LET n == ToNumber(a) IN n.t = "number" /\ n.v < k

\* a / b >= num / den, the division being real division; b is a non-zero number.
\* NaN when a is NaN, so every comparison is false.
JsRatioGE(a, b, num, den) ==
    LET n == ToNumber(a) IN
    /\ n.t = "number"
    /\ IF b.v > 0 THEN den * n.v >= num * b.v ELSE den * n.v <= num * b.v

\* The spelling of every string the model handles: a string value carries the
\* string, and the string functions work on its characters.
Spelling ==
    ("" :> <<>>) @@
    (" " :> <<" ">>) @@
    ("Untitled" :> <<"U", "n", "t", "i", "t", "l", "e", "d">>) @@
    ("Unknown" :> <<"U", "n", "k", "n", "o", "w", "n">>) @@
    ("unknown" :> <<"u", "n", "k", "n", "o", "w", "n">>) @@
    ("GBP" :> <<"G", "B", "P">>) @@
    ("active" :> <<"a", "c", "t", "i", "v", "e">>) @@
    ("birmingham" :> <<"b", "i", "r", "m", "i", "n", "g", "h", "a", "m">>) @@
    ("Access ramp" :> <<"A", "c", "c", "e", "s", "s", " ", "r", "a", "m", "p">>) @@
    ("Ramp audit" :> <<"R", "a", "m", "p", " ", "a", "u", "d", "i", "t">>) @@
    ("2026-11-05" :> <<"2", "0", "2", "6", "-", "1", "1", "-", "0", "5">>) @@
    ("2026-11-07" :> <<"2", "0", "2", "6", "-", "1", "1", "-", "0", "7">>) @@
    ("2026-11-08" :> <<"2", "0", "2", "6", "-", "1", "1", "-", "0", "8">>) @@
    ("TBC" :> <<"T", "B", "C">>) @@
    ("IT system maintenance contract" :> <<"I", "T", " ", "s", "y", "s", "t", "e", "m", " ", "m", "a", "i", "n", "t", "e", "n", "a", "n", "c", "e", " ", "c", "o", "n", "t", "r", "a", "c", "t">>) @@
    ("Road resurfacing" :> <<"R", "o", "a", "d", " ", "r", "e", "s", "u", "r", "f", "a", "c", "i", "n", "g">>) @@
    ("WET ROOM install" :> <<"W", "E", "T", " ", "R", "O", "O", "M", " ", "i", "n", "s", "t", "a", "l", "l">>) @@
    ("Level" :> <<"L", "e", "v", "e", "l">>) @@
    ("Includes adaptation works" :> <<"I", "n", "c", "l", "u", "d", "e", "s", " ", "a", "d", "a", "p", "t", "a", "t", "i", "o", "n", " ", "w", "o", "r", "k", "s">>) @@
    ("access works" :> <<"a", "c", "c", "e", "s", "s", " ", "w", "o", "r", "k", "s">>) @@
    ("2026-10-27" :> <<"2", "0", "2", "6", "-", "1", "0", "-", "2", "7">>) @@
    ("2026-11-06" :> <<"2", "0", "2", "6", "-", "1", "1", "-", "0", "6">>) @@
    ("2026-13-45" :> <<"2", "0", "2", "6", "-", "1", "3", "-", "4", "5">>) @@
    ("Birmingham" :> <<"B", "i", "r", "m", "i", "n", "g", "h", "a", "m">>) @@
    ("Dudley" :> <<"D", "u", "d", "l", "e", "y">>) @@
    ("Sandwell" :> <<"S", "a", "n", "d", "w", "e", "l", "l">>) @@
    ("Walsall" :> <<"W", "a", "l", "s", "a", "l", "l">>) @@
    ("Wolverhampton" :> <<"W", "o", "l", "v", "e", "r", "h", "a", "m", "p", "t", "o", "n">>) @@
    ("Solihull" :> <<"S", "o", "l", "i", "h", "u", "l", "l">>) @@
    ("Coventry" :> <<"C", "o", "v", "e", "n", "t", "r", "y">>) @@
    ("dfg" :> <<"d", "f", "g">>) @@
    ("disabled facilities" :> <<"d", "i", "s", "a", "b", "l", "e", "d", " ", "f", "a", "c", "i", "l", "i", "t", "i", "e", "s">>) @@
    ("adaptation" :> <<"a", "d", "a", "p", "t", "a", "t", "i", "o", "n">>) @@
    ("accessible" :> <<"a", "c", "c", "e", "s", "s", "i", "b", "l", "e">>) @@
    ("mobility" :> <<"m", "o", "b", "i", "l", "i", "t", "y">>) @@
    ("wheelchair" :> <<"w", "h", "e", "e", "l", "c", "h", "a", "i", "r">>) @@
    ("ramp" :> <<"r", "a", "m", "p">>) @@
    ("bathroom" :> <<"b", "a", "t", "h", "r", "o", "o", "m">>) @@
    ("wet room" :> <<"w", "e", "t", " ", "r", "o", "o", "m">>) @@
    ("level access" :> <<"l", "e", "v", "e", "l", " ", "a", "c", "c", "e", "s", "s">>) @@
    ("grab rail" :> <<"g", "r", "a", "b", " ", "r", "a", "i", "l">>) @@
    ("stairlift" :> <<"s", "t", "a", "i", "r", "l", "i", "f", "t">>) @@
    ("it system" :> <<"i", "t", " ", "s", "y", "s", "t", "e", "m">>) @@
    ("software" :> <<"s", "o", "f", "t", "w", "a", "r", "e">>) @@
    ("legal services" :> <<"l", "e", "g", "a", "l", " ", "s", "e", "r", "v", "i", "c", "e", "s">>) @@
    ("audit" :> <<"a", "u", "d", "i", "t">>) @@
    ("consultancy only" :> <<"c", "o", "n", "s", "u", "l", "t", "a", "n", "c", "y", " ", "o", "n", "l", "y">>) @@
    ("design only" :> <<"d", "e", "s", "i", "g", "n", " ", "o", "n", "l", "y">>) @@
    ("survey only" :> <<"s", "u", "r", "v", "e", "y", " ", "o", "n", "l", "y">>)

Chars(s) == Spelling[s]

UpperToLower ==
    ("A" :> "a") @@ ("B" :> "b") @@ ("C" :> "c") @@ ("D" :> "d") @@ ("E" :> "e") @@
    ("F" :> "f") @@ ("G" :> "g") @@ ("H" :> "h") @@ ("I" :> "i") @@ ("J" :> "j") @@
    ("K" :> "k") @@ ("L" :> "l") @@ ("M" :> "m") @@ ("N" :> "n") @@ ("O" :> "o") @@
    ("P" :> "p") @@ ("Q" :> "q") @@ ("R" :> "r") @@ ("S" :> "s") @@ ("T" :> "t") @@
    ("U" :> "u") @@ ("V" :> "v") @@ ("W" :> "w") @@ ("X" :> "x") @@ ("Y" :> "y") @@
    ("Z" :> "z")

\* String.prototype.toLowerCase
ToLowerCase(s) ==
    [i \in 1..Len(s) |-> IF s[i] \in DOMAIN UpperToLower THEN UpperToLower[s[i]] ELSE s[i]]

\* String.prototype.includes
Includes(s, sub) ==
    \E i \in 0..(Len(s) - Len(sub)) : \A j \in 1..Len(sub) : s[i + j] = sub[j]

DigitValue ==
    ("0" :> 0) @@ ("1" :> 1) @@ ("2" :> 2) @@ ("3" :> 3) @@ ("4" :> 4) @@
    ("5" :> 5) @@ ("6" :> 6) @@ ("7" :> 7) @@ ("8" :> 8) @@ ("9" :> 9)

IsDigits(s) == \A i \in 1..Len(s) : s[i] \in DOMAIN DigitValue

RECURSIVE DigitsToNat(_)
DigitsToNat(s) ==
    IF s = <<>> THEN 0
    ELSE 10 * DigitsToNat(SubSeq(s, 1, Len(s) - 1)) + DigitValue[s[Len(s)]]

\* The clock counts days; a date is the ordinal of its day (31-day months keep
\* the order of the calendar, which is all that > reads).
DayStamp(y, m, d) == (y * 12 + (m - 1)) * 31 + (d - 1)

\* new Date(string) for the date-only ISO form YYYY-MM-DD; anything else is an
\* Invalid Date, whose time value is NaN.
DateParse(s) ==
    IF /\ Len(s) = 10
       /\ s[5] = "-" /\ s[8] = "-"
       /\ IsDigits(SubSeq(s, 1, 4)) /\ IsDigits(SubSeq(s, 6, 7)) /\ IsDigits(SubSeq(s, 9, 10))
       /\ DigitsToNat(SubSeq(s, 6, 7)) \in 1..12
       /\ DigitsToNat(SubSeq(s, 9, 10)) \in 1..31
    THEN JNum(DayStamp(DigitsToNat(SubSeq(s, 1, 4)), DigitsToNat(SubSeq(s, 6, 7)),
                       DigitsToNat(SubSeq(s, 9, 10))))
    ELSE JNaN

-----------------------------------------------------------------------------
(* The normalizer: the object literal each variant builds from a release.  *)
(* A release is the record of the fields the optional chains read; a field *)
(* is JUndefined when it, or an object on the way to it, is absent.        *)


\* NormalizeRelease with value read by ?? instead of ||: an amount of 0 is kept.
NormalizeRelease_KeepsZero(release, location) ==
    [id |-> release.ocid,
     title |-> JsOr(release.title, JStr("Untitled")),
     description |-> JsOr(release.description, JStr("")),
     buyer |-> JsOr(release.buyerName, JStr("Unknown")),
     value |-> IF release.amount.t \in {"undefined", "null"} THEN JNull ELSE release.amount,
     deadline |-> JsOr(release.enquiryEnd, release.tenderEnd),
     status |-> JsOr(release.status, JStr("unknown")),
     location |-> JStr(location)]

\* part_001:95-104 (the same literal at 438-447 and 709-718)
NormalizeRelease(release, location) ==
    [id |-> release.ocid,
     title |-> JsOr(release.title, JStr("Untitled")),
     description |-> JsOr(release.description, JStr("")),
     buyer |-> JsOr(release.buyerName, JStr("Unknown")),
     value |-> JsOr(release.amount, JNull),
     deadline |-> JsOr(release.enquiryEnd, release.tenderEnd),
     status |-> JsOr(release.status, JStr("unknown")),
     location |-> JStr(location)]


\* lib/contracts-finder.js:127-140 (cpvCodes, read from tender.items, is left out:
\* the releases carry no items)
NormalizeReleaseLib(release, location) ==
    [id |-> release.ocid,
     title |-> JsOr(release.title, JStr("Untitled")),
     description |-> JsOr(release.description, JStr("")),
     buyer |-> JsOr(release.buyerName, JStr("Unknown")),
     value |-> JsOr(release.amount, JNull),
     currency |-> JsOr(release.currency, JStr("GBP")),
     publishedDate |-> release.date,
     deadline |-> JsOr(release.tenderEnd, JNull),
     location |-> JStr(location),
     url |-> <<"https://www.contractsfinder.service.gov.uk/notice/", release.ocid>>,
     status |-> release.status]

-----------------------------------------------------------------------------
(* hasFutureDeadline and isRelevantAdaptationTender, part_001:144-184 *)

\* part_001:15-28
CORE_ADAPTATION_KEYWORDS ==
    <<"dfg", "disabled facilities", "adaptation", "accessible", "mobility", "wheelchair",
      "ramp", "bathroom", "wet room", "level access", "grab rail", "stairlift">>

\* part_001:41-49
EXCLUDE_KEYWORDS ==
    <<"it system", "software", "legal services", "audit",
      "consultancy only", "design only", "survey only">>

\* new Date(x): the time value, NaN for an Invalid Date
NewDate(x) ==
    CASE x.t = "string" -> DateParse(Chars(x.v))
      [] x.t = "number" -> x

\* hasFutureDeadline with >= in place of >: a deadline equal to the clock passes.
hasFutureDeadline_NotStrict(t, clock) ==
    IF ~Truthy(t.deadline) THEN FALSE
    ELSE LET deadlineDate == NewDate(t.deadline)
         IN deadlineDate.t = "number" /\ deadlineDate.v >= clock

\* hasFutureDeadline returning true where line 147 returns false: a tender with
\* no deadline is taken to be open.
hasFutureDeadline_AbsentIsOpen(t, clock) ==
    IF ~Truthy(t.deadline) THEN TRUE
    ELSE LET deadlineDate == NewDate(t.deadline)
         IN deadlineDate.t = "number" /\ deadlineDate.v > clock

\* part_001:144-160 (and 482-502, 751-763); clock is what new Date() reads.
\* new Date(string) does not throw, so the catch branch is never taken.
hasFutureDeadline(t, clock) ==
    IF ~Truthy(t.deadline) THEN FALSE
    ELSE LET deadlineDate == NewDate(t.deadline)
         IN deadlineDate.t = "number" /\ deadlineDate.v > clock

\* isRelevantAdaptationTender with the core keywords tested first: a core match
\* is relevant whatever else the text contains.
isRelevantAdaptationTender_CoreFirst(t) ==
    LET text == ToLowerCase(Chars(t.title.v) \o <<" ">> \o Chars(t.description.v))
    IN \E i \in 1..Len(CORE_ADAPTATION_KEYWORDS) :
           Includes(text, Chars(CORE_ADAPTATION_KEYWORDS[i]))

\* part_001:166-184 (and 504-517)
isRelevantAdaptationTender(t) ==
    LET text == ToLowerCase(Chars(t.title.v) \o <<" ">> \o Chars(t.description.v))
        hasExcludeKeyword ==
            \E i \in 1..Len(EXCLUDE_KEYWORDS) : Includes(text, Chars(EXCLUDE_KEYWORDS[i]))
        hasCoreKeyword ==
            \E i \in 1..Len(CORE_ADAPTATION_KEYWORDS) :
                Includes(text, Chars(CORE_ADAPTATION_KEYWORDS[i]))
    IN IF hasExcludeKeyword THEN FALSE
       ELSE IF ~hasCoreKeyword THEN FALSE
       ELSE TRUE

-----------------------------------------------------------------------------
(* fetchAdaptationTenders: the per-location work of the three variants *)

\* A response of the upstream service to one location's query:
\*   kind "throw"    fetch() rejects (network error)
\*   kind "notok"    response.ok is false
\*   kind "badjson"  response.json() rejects, or the body is not an object
\*   kind "ok"       a body; hasReleases says whether data.releases is there
\* A release is a record of fields, or JNull (a malformed entry of the array).
ThrowResponse == [kind |-> "throw", hasReleases |-> FALSE, releases |-> <<>>]
NotOkResponse == [kind |-> "notok", hasReleases |-> FALSE, releases |-> <<>>]
BadJsonResponse == [kind |-> "badjson", hasReleases |-> FALSE, releases |-> <<>>]
NoReleasesResponse == [kind |-> "ok", hasReleases |-> FALSE, releases |-> <<>>]
ReleasesResponse(rs) == [kind |-> "ok", hasReleases |-> TRUE, releases |-> rs]

\* No query has been made.
NoResponse == [kind |-> "none", hasReleases |-> FALSE, releases |-> <<>>]

\* The index of the first malformed release, or 0
RECURSIVE FirstNull(_, _)
FirstNull(rs, i) ==
    IF i > Len(rs) THEN 0 ELSE IF rs[i] = JNull THEN i ELSE FirstNull(rs, i + 1)

\* data.releases.map(release => ({...})), part_001:94-104
MapReleases(rs, location) == [i \in 1..Len(rs) |-> NormalizeRelease(rs[i], location)]

\* FilterTenders without the seenIds.has(tender.id) test.
RECURSIVE FilterTenders_NoDuplicateTest(_, _, _)
FilterTenders_NoDuplicateTest(ts, seen, clock) ==
    IF ts = <<>> THEN [kept |-> <<>>, seen |-> seen]
    ELSE LET t == Head(ts)
             keep == hasFutureDeadline(t, clock) /\ isRelevantAdaptationTender(t)
             rest == FilterTenders_NoDuplicateTest(Tail(ts),
                                                   IF keep THEN seen \cup {t.id} ELSE seen,
                                                   clock)
         IN [kept |-> IF keep THEN <<t>> \o rest.kept ELSE rest.kept, seen |-> rest.seen]

\* .filter(tender => {...}), part_001:105-125: the tenders kept and the seenIds
\* the callback leaves, the callback running on the tenders in order
RECURSIVE FilterTenders(_, _, _)
FilterTenders(ts, seen, clock) ==
    IF ts = <<>> THEN [kept |-> <<>>, seen |-> seen]
    ELSE LET t == Head(ts)
             keep == /\ ~(t.id \in seen)
                     /\ hasFutureDeadline(t, clock)
                     /\ isRelevantAdaptationTender(t)
             rest == FilterTenders(Tail(ts), IF keep THEN seen \cup {t.id} ELSE seen, clock)
         IN [kept |-> IF keep THEN <<t>> \o rest.kept ELSE rest.kept, seen |-> rest.seen]

\* data.releases.forEach(release => {...}), part_001:708-726 (the MVP variant):
\* no relevance check
RECURSIVE AddTenders(_, _, _)
AddTenders(ts, seen, clock) ==
    IF ts = <<>> THEN [kept |-> <<>>, seen |-> seen]
    ELSE LET t == Head(ts)
             keep == ~(t.id \in seen) /\ hasFutureDeadline(t, clock)
             rest == AddTenders(Tail(ts), IF keep THEN seen \cup {t.id} ELSE seen, clock)
         IN [kept |-> IF keep THEN <<t>> \o rest.kept ELSE rest.kept, seen |-> rest.seen]

\* History: firstSeen after the tenders ts have been normalized, in order
RECURSIVE RecordFirst(_, _)
RecordFirst(first, ts) ==
    IF ts = <<>> THEN first
    ELSE IF \E i \in 1..Len(first) : first[i].id = Head(ts).id
         THEN RecordFirst(first, Tail(ts))
         ELSE RecordFirst(Append(first, Head(ts)), Tail(ts))

\* The keys of new Map(entries), in insertion order: each id at its first place
RECURSIVE MapKeys(_, _)
MapKeys(ts, seen) ==
    IF ts = <<>> THEN <<>>
    ELSE IF Head(ts).id \in seen THEN MapKeys(Tail(ts), seen)
    ELSE <<Head(ts).id>> \o MapKeys(Tail(ts), seen \cup {Head(ts).id})

\* The value new Map(entries) holds for a key: the last entry set under it
RECURSIVE MapGet(_, _)
MapGet(ts, id) ==
    IF ts[Len(ts)].id = id THEN ts[Len(ts)] ELSE MapGet(SubSeq(ts, 1, Len(ts) - 1), id)

\* Array.from(new Map(allTenders.map(t => [t.id, t])).values()),
\* lib/contracts-finder.js:147-149
UniqueTenders(ts) ==
    LET keys == MapKeys(ts, {}) IN [i \in 1..Len(keys) |-> MapGet(ts, keys[i])]


\* The filter callback of lib/contracts-finder.js:152-155
IsOpenTender(t, clock) ==
    /\ t.status = JStr("active")
    /\ \/ ~Truthy(t.deadline)
       \/ LET d == NewDate(t.deadline) IN d.t = "number" /\ d.v > clock

\* uniqueTenders.filter(...), lib/contracts-finder.js:152-155
OpenTenders(ts, clock) ==
    LET Open(t) == IsOpenTender(t, clock) IN SelectSeq(ts, Open)

-----------------------------------------------------------------------------
(* qualifyTender, part_001:190-336 *)

requiredInsurance == 5000000
hardGateInsurance == 5000000

\* TURNOVER CHECK: [delta, passes, issues] of lines 196-214
TurnoverRule(t, p) ==
    IF ~Truthy(t.value) THEN [delta |-> 0, passes |-> <<>>, issues |-> <<>>]
    ELSE IF JsRatioGE(p.turnover, t.value, 3, 1)
         THEN [delta |-> 10, issues |-> <<>>,
               passes |-> <<"Your turnover (${profile.turnover}) exceeds 3x contract value">>]
    ELSE IF JsRatioGE(p.turnover, t.value, 3, 2)
         THEN [delta |-> 5, issues |-> <<>>,
               passes |-> <<"Your turnover covers contract value with good margin">>]
    ELSE IF JsRatioGE(p.turnover, t.value, 1, 1)
         THEN [delta |-> 2, issues |-> <<>>,
               passes |-> <<"Your turnover matches contract value">>]
    ELSE IF JsRatioGE(p.turnover, t.value, 1, 2)
         THEN [delta |-> -3, passes |-> <<>>,
               issues |-> <<"Your turnover is below contract value - risky">>]
    ELSE [delta |-> -10, passes |-> <<>>,
          issues |-> <<"Your turnover is far below this contract value">>]

\* InsuranceRule with a bonus of 5 in place of 15.
InsuranceRule_Bonus5(p) ==
    IF JsGE(p.publicLiability, requiredInsurance)
    THEN [delta |-> 5, issues |-> <<>>,
          passes |-> <<"You have required ${requiredInsurance} public liability insurance">>]
    ELSE [delta |-> -20, passes |-> <<>>,
          issues |-> <<"You need ${requiredInsurance} public liability insurance">>]

\* INSURANCE CHECK, lines 217-224
InsuranceRule(p) ==
    IF JsGE(p.publicLiability, requiredInsurance)
    THEN [delta |-> 15, issues |-> <<>>,
          passes |-> <<"You have required ${requiredInsurance} public liability insurance">>]
    ELSE [delta |-> -20, passes |-> <<>>,
          issues |-> <<"You need ${requiredInsurance} public liability insurance">>]

\* ExperienceRule without the 3-year tier.
ExperienceRule_NoMiddleTier(p) ==
    IF JsGE(p.yearsAdaptations, 5)
    THEN [delta |-> 10, issues |-> <<>>,
          passes |-> <<"${profile.yearsAdaptations} years experience in adaptation work">>]
    ELSE IF JsGE(p.yearsAdaptations, 1)
    THEN [delta |-> -5, passes |-> <<>>,
          issues |-> <<"Only ${profile.yearsAdaptations} year(s) experience (many councils require 5+)">>]
    ELSE [delta |-> -15, passes |-> <<>>,
          issues |-> <<"Insufficient experience in adaptation work">>]

\* ExperienceRule with the deltas of the two upper tiers exchanged.
ExperienceRule_UpperTiersSwapped(p) ==
    IF JsGE(p.yearsAdaptations, 5)
    THEN [delta |-> 5, issues |-> <<>>,
          passes |-> <<"${profile.yearsAdaptations} years experience in adaptation work">>]
    ELSE IF JsGE(p.yearsAdaptations, 3)
    THEN [delta |-> 10, issues |-> <<>>,
          passes |-> <<"${profile.yearsAdaptations} years experience (councils prefer 5+ years)">>]
    ELSE IF JsGE(p.yearsAdaptations, 1)
    THEN [delta |-> -5, passes |-> <<>>,
          issues |-> <<"Only ${profile.yearsAdaptations} year(s) experience (many councils require 5+)">>]
    ELSE [delta |-> -15, passes |-> <<>>,
          issues |-> <<"Insufficient experience in adaptation work">>]

\* EXPERIENCE CHECK, lines 227-239
ExperienceRule(p) ==
    IF JsGE(p.yearsAdaptations, 5)
    THEN [delta |-> 10, issues |-> <<>>,
          passes |-> <<"${profile.yearsAdaptations} years experience in adaptation work">>]
    ELSE IF JsGE(p.yearsAdaptations, 3)
    THEN [delta |-> 5, issues |-> <<>>,
          passes |-> <<"${profile.yearsAdaptations} years experience (councils prefer 5+ years)">>]
    ELSE IF JsGE(p.yearsAdaptations, 1)
    THEN [delta |-> -5, passes |-> <<>>,
          issues |-> <<"Only ${profile.yearsAdaptations} year(s) experience (many councils require 5+)">>]
    ELSE [delta |-> -15, passes |-> <<>>,
          issues |-> <<"Insufficient experience in adaptation work">>]

\* One boolean policy rule: lines 242-248, 251-257, 260-266
PolicyRule(held, plus, minus, passText, issueText) ==
    IF held THEN [delta |-> plus, passes |-> <<passText>>, issues |-> <<>>]
    ELSE [delta |-> 0 - minus, passes |-> <<>>, issues |-> <<issueText>>]

SafeguardingRule(p) ==
    PolicyRule(p.hasSafeguarding, 8, 15,
               "You have a safeguarding policy", "Missing safeguarding policy")

DBSRule(p) ==
    PolicyRule(p.hasDBSChecks, 8, 10,
               "Your staff have enhanced DBS checks", "Staff need enhanced DBS checks")

HealthSafetyRule(p) ==
    PolicyRule(p.hasHealthSafety, 7, 8,
               "You have CDM 2015 compliant Health & Safety Policy",
               "Missing Health & Safety Policy (CDM 2015)")

\* One accreditation: +5 to accreditationBonus and one pass, lines 270-285
AccreditationRule(held, passText) ==
    IF held THEN [delta |-> 5, passes |-> <<passText>>, issues |-> <<>>]
    ELSE [delta |-> 0, passes |-> <<>>, issues |-> <<>>]

\* ACCREDITATIONS, lines 269-289: the four rules in order
AccreditationRules(p) ==
    <<AccreditationRule(p.hasCHAS, "CHAS accreditation"),
      AccreditationRule(p.hasSMAS, "SMAS accreditation"),
      AccreditationRule(p.hasConstructionline, "Constructionline registration"),
      AccreditationRule(p.hasSafeContractor, "SafeContractor accreditation")>>

\* Line 292 throws a TypeError when tender.location is truthy and
\* profile.location has no toLowerCase (it is undefined or null).
LocationThrows(t, p) == Truthy(t.location) /\ p.location.t # "string"

\* LocationRule without the two toLowerCase() calls.
LocationRule_CaseSensitive(t, p) ==
    IF /\ Truthy(t.location)
       /\ p.location.t = "string"
       /\ Includes(Chars(p.location.v), Chars(t.location.v))
    THEN [delta |-> 3, passes |-> <<"Local to ${tender.location}">>, issues |-> <<>>]
    ELSE [delta |-> 0, passes |-> <<>>, issues |-> <<>>]

\* LOCATION BONUS, lines 292-295
LocationRule(t, p) ==
    IF /\ Truthy(t.location)
       /\ p.location.t = "string"
       /\ Includes(ToLowerCase(Chars(p.location.v)), ToLowerCase(Chars(t.location.v)))
    THEN [delta |-> 3, passes |-> <<"Local to ${tender.location}">>, issues |-> <<>>]
    ELSE [delta |-> 0, passes |-> <<>>, issues |-> <<>>]

\* The rules in the order the function evaluates them
Rules(t, p) ==
    <<TurnoverRule(t, p), InsuranceRule(p), ExperienceRule(p), SafeguardingRule(p),
      DBSRule(p), HealthSafetyRule(p)>> \o AccreditationRules(p) \o <<LocationRule(t, p)>>

RECURSIVE SumDeltas(_)
SumDeltas(rs) == IF rs = <<>> THEN 0 ELSE rs[1].delta + SumDeltas(Tail(rs))

RECURSIVE ConcatPasses(_)
ConcatPasses(rs) == IF rs = <<>> THEN <<>> ELSE rs[1].passes \o ConcatPasses(Tail(rs))

RECURSIVE ConcatIssues(_)
ConcatIssues(rs) == IF rs = <<>> THEN <<>> ELSE rs[1].issues \o ConcatIssues(Tail(rs))

\* DetermineStatus with the two hard-gate conditions joined by && instead of ||.
DetermineStatus_HardGateAnd(p, score) ==
    IF JsLT(p.publicLiability, hardGateInsurance) /\ JsLT(p.yearsAdaptations, 1) THEN "red"
    ELSE IF ~p.hasSafeguarding \/ ~p.hasDBSChecks \/ ~p.hasHealthSafety THEN "amber"
    ELSE IF score >= 25 THEN "green"
    ELSE IF score >= 15 THEN "amber"
    ELSE "red"

\* DetermineStatus with the score thresholds tested before the soft gate.
DetermineStatus_ScoreBeforeSoftGate(p, score) ==
    IF JsLT(p.publicLiability, hardGateInsurance) \/ JsLT(p.yearsAdaptations, 1) THEN "red"
    ELSE IF score >= 25 THEN "green"
    ELSE IF ~p.hasSafeguarding \/ ~p.hasDBSChecks \/ ~p.hasHealthSafety THEN "amber"
    ELSE IF score >= 15 THEN "amber"
    ELSE "red"

\* DetermineStatus with green from 30 (a threshold of another draft).
DetermineStatus_GreenFrom30(p, score) ==
    IF JsLT(p.publicLiability, hardGateInsurance) \/ JsLT(p.yearsAdaptations, 1) THEN "red"
    ELSE IF ~p.hasSafeguarding \/ ~p.hasDBSChecks \/ ~p.hasHealthSafety THEN "amber"
    ELSE IF score >= 30 THEN "green"
    ELSE IF score >= 15 THEN "amber"
    ELSE "red"

\* DETERMINE STATUS, lines 298-315
DetermineStatus(p, score) ==
    IF JsLT(p.publicLiability, hardGateInsurance) \/ JsLT(p.yearsAdaptations, 1) THEN "red"
    ELSE IF ~p.hasSafeguarding \/ ~p.hasDBSChecks \/ ~p.hasHealthSafety THEN "amber"
    ELSE IF score >= 25 THEN "green"
    ELSE IF score >= 15 THEN "amber"
    ELSE "red"

\* lines 318-330: the projection of the tender the result carries
TenderView(t) ==
    [id |-> t.id, title |-> t.title, description |-> t.description, buyer |-> t.buyer,
     value |-> t.value, deadline |-> t.deadline,
     url |-> <<"https://www.contractsfinder.service.gov.uk/notice/", t.id,
               "?origin=SearchResults">>,
     location |-> t.location]

\* let score = 0, line 191
InitialScore == 0

\* The outcome of the call: the returned object, or threw when line 292 throws
\* (the async function then rejects and nothing is returned).
qualifyTender(t, p) ==
    IF LocationThrows(t, p)
    THEN [threw |-> TRUE, tender |-> TenderView(t), score |-> 0, status |-> "none",
          passes |-> <<>>, issues |-> <<>>]
    ELSE LET rs == Rules(t, p)
             score == InitialScore + SumDeltas(rs)
         IN [threw |-> FALSE, tender |-> TenderView(t), score |-> score,
             status |-> DetermineStatus(p, score),
             passes |-> ConcatPasses(rs), issues |-> ConcatIssues(rs)]

-----------------------------------------------------------------------------
(* Inputs *)


\* part_001:4-12
WEST_MIDLANDS_COUNCILS ==
    <<"Birmingham", "Dudley", "Sandwell", "Walsall", "Wolverhampton", "Solihull", "Coventry">>


\* The releases qualifyTender's tenders are normalized from: the amount is absent,
\* zero or a positive sum (amounts are sums of money: none is negative).
QualifyReleases ==
    [ocid : {"ocds-1"}, title : {JStr("Access ramp")}, description : {JUndefined},
     buyerName : {JUndefined}, amount : {JUndefined, JNum(0), JNum(100000)},
     currency : {JUndefined}, date : {JUndefined},
     enquiryEnd : {JUndefined}, tenderEnd : {JUndefined}, status : {JUndefined}]

\* Profiles: every tier boundary of every rule, and a numeric field or the
\* location left out of the object (undefined).
Profiles ==
    [turnover : {JNum(40000), JNum(50000), JNum(100000), JNum(150000), JNum(300000),
                 JNum(400000)},
     publicLiability : {JUndefined, JNum(0), JNum(1000000), JNum(4999999), JNum(5000000)},
     yearsAdaptations : {JUndefined, JNum(0), JNum(1), JNum(2), JNum(3), JNum(5), JNum(6)},
     hasSafeguarding : BOOLEAN, hasDBSChecks : BOOLEAN, hasHealthSafety : BOOLEAN,
     hasCHAS : BOOLEAN, hasSMAS : BOOLEAN, hasConstructionline : BOOLEAN,
     hasSafeContractor : BOOLEAN,
     location : {JUndefined, JStr("birmingham"), JStr("Birmingham"), JStr("Dudley")}]


\* The profiles of the repeated calls: both sides of the turnover, insurance and
\* policy rules, every experience tier, a location that matches, one that does
\* not, and none.
RepeatProfiles ==
    [turnover : {JNum(50000), JNum(300000)},
     publicLiability : {JNum(4999999), JNum(5000000)},
     yearsAdaptations : {JUndefined, JNum(0), JNum(1), JNum(2), JNum(3), JNum(5), JNum(6)},
     hasSafeguarding : BOOLEAN, hasDBSChecks : {TRUE}, hasHealthSafety : {TRUE},
     hasCHAS : BOOLEAN, hasSMAS : {FALSE}, hasConstructionline : {FALSE},
     hasSafeContractor : {FALSE},
     location : {JUndefined, JStr("birmingham"), JStr("Dudley")}]

\* The profile of a request body: absent, null, or an object in which turnover,
\* publicLiability, yearsAdaptations or location may be missing.
HandlerProfiles ==
    {JUndefined, JNull} \cup
    [turnover : {JUndefined, JNum(300000)},
     publicLiability : {JUndefined, JNum(5000000)},
     yearsAdaptations : {JUndefined, JNum(0), JNum(2), JNum(6)},
     hasSafeguarding : BOOLEAN, hasDBSChecks : {TRUE}, hasHealthSafety : {TRUE},
     hasCHAS : {TRUE}, hasSMAS : {FALSE}, hasConstructionline : {FALSE},
     hasSafeContractor : {FALSE},
     location : {JUndefined, JStr("birmingham")}]

\* A request of another method is answered before its body is read: it comes
\* with no profile or with a complete one.
Requests ==
    [method : {"POST"}, profile : HandlerProfiles] \cup
    [method : {"GET"},
     profile : {JUndefined} \cup
               {p \in HandlerProfiles :
                   /\ "t" \notin DOMAIN p
                   /\ \A f \in {"turnover", "publicLiability", "yearsAdaptations", "location"} :
                          p[f].t # "undefined"}]

\* qualifyTender is called at most MaxCalls times in a run of repeated calls.
MaxCalls == 2

\* The run starts on 2026-11-06 and the clock advances by at most MaxTicks days.
NowStart == DayStamp(2026, 11, 6)
MaxTicks == 1

\* At most MaxReleases releases come back over the whole run.
MaxReleases == 2

Ids == {"ocds-1", "ocds-2"}

\* What the upstream returns to the seenIds variants: two notice ids; a title the
\* relevance check accepts and one it rejects; an enquiry end date that is absent,
\* one day after the start of the run (the clock can reach it), or two days after.
FetchReleases ==
    [ocid : Ids, title : {JStr("Access ramp"), JStr("Ramp audit")}, description : {JUndefined},
     buyerName : {JUndefined}, amount : {JUndefined},
     currency : {JUndefined}, date : {JUndefined},
     enquiryEnd : {JUndefined, JStr("2026-11-07"), JStr("2026-11-08")},
     tenderEnd : {JUndefined}, status : {JUndefined}]

\* What the upstream returns to the lib variant, which reads the tender period
\* and the status.
LibReleases ==
    [ocid : Ids, title : {JStr("Access ramp")}, description : {JUndefined},
     buyerName : {JUndefined}, amount : {JUndefined},
     currency : {JUndefined}, date : {JUndefined},
     enquiryEnd : {JUndefined},
     tenderEnd : {JUndefined, JStr("2026-11-05"), JStr("2026-11-07"), JStr("TBC")},
     status : {JUndefined, JStr("active")}]

\* The releases a single tender is normalized from: titles and descriptions with
\* a core keyword, an exclusion keyword, both, neither, in upper case, or split
\* over the two fields; end dates that are absent, null, empty, not a date, ten
\* days back, the day before, the day of the run, and the days after it.
TenderReleases ==
    [ocid : {"ocds-1"},
     title : {JUndefined, JStr("Access ramp"), JStr("Ramp audit"),
              JStr("IT system maintenance contract"), JStr("Road resurfacing"),
              JStr("WET ROOM install"), JStr("Level")},
     description : {JUndefined, JStr("Includes adaptation works"), JStr("access works")},
     buyerName : {JUndefined, JStr("Dudley")}, amount : {JUndefined, JNum(100000)},
     currency : {JUndefined}, date : {JUndefined},
     enquiryEnd : {JUndefined, JNull, JStr(""), JStr("TBC"), JStr("2026-13-45"),
                   JStr("2026-10-27"), JStr("2026-11-05"), JStr("2026-11-06"),
                   JStr("2026-11-07"), JStr("2026-11-08")},
     tenderEnd : {JUndefined, JNull, JStr("2026-11-08")},
     status : {JUndefined, JStr("active")}]

\* What the upstream returns in the runs that keep the responses: two notice
\* ids, a relevant title, an active status, and an enquiry period and a tender
\* period that end after the run: every variant accepts the first release of
\* an id.
OutcomeReleases ==
    [ocid : Ids, title : {JStr("Access ramp")}, description : {JUndefined},
     buyerName : {JUndefined}, amount : {JUndefined},
     currency : {JUndefined}, date : {JUndefined},
     enquiryEnd : {JStr("2026-11-08")},
     tenderEnd : {JStr("2026-11-08")}, status : {JStr("active")}]

SeqsUpTo(S, n) == UNION {[1..k -> S] : k \in 0..n}

\* The fetch stage hands the handler at most MaxTenders tenders: one more than
\* the five the handler returns.
MaxTenders == 6

\* The releases behind the handler's tenders: no value, a third of the profile's
\* turnover, most of it.
HandlerReleases ==
    [ocid : {"ocds-1"}, title : {JStr("Access ramp")}, description : {JUndefined},
     buyerName : {JUndefined}, amount : {JUndefined, JNum(100000), JNum(250000)},
     currency : {JUndefined}, date : {JUndefined},
     enquiryEnd : {JUndefined}, tenderEnd : {JUndefined}, status : {JUndefined}]

\* The lists fetchAdaptationTenders can resolve to: tenders of Birmingham with a
\* value or none.
HandlerTenders ==
    SeqsUpTo({NormalizeRelease(r, "Birmingham") : r \in HandlerReleases}, MaxTenders)

\* The responses a query can get when at most n more releases may come back
Responses(releases, n) ==
    {ThrowResponse, NotOkResponse, BadJsonResponse, NoReleasesResponse}
        \cup {ReleasesResponse(rs) : rs \in SeqsUpTo(releases \cup {JNull}, n)}

NoResult ==
    [threw |-> FALSE, tender |-> JUndefined, score |-> 0, status |-> "none",
     passes |-> <<>>, issues |-> <<>>]

\* The variables a specification does not use stay at these values.
QualifyIdle ==
    /\ rawRelease = JUndefined /\ tender = JUndefined /\ profile = JUndefined
    /\ result = NoResult /\ calls = <<>>

NoRequest == [method |-> "none", profile |-> JUndefined]
NoAnswer == [status |-> 0, matches |-> <<>>]

HandlerIdle == req = NoRequest /\ res = NoAnswer

FetchIdle ==
    /\ variant = "none" /\ locIdx = 0 /\ allTenders = <<>> /\ seenIds = {}
    /\ now = 0 /\ uniqueTenders = <<>> /\ returned = <<>>
    /\ fetched = 0 /\ firstSeen = <<>> /\ evalAt = <<>>
    /\ response = NoResponse

-----------------------------------------------------------------------------
(* Specification SpecQualify: one call of qualifyTender on a normalized     *)
(* tender and a profile.                                                    *)

InitQualify ==
    /\ pc = "call"
    /\ rawRelease \in QualifyReleases
    /\ tender = NormalizeRelease(rawRelease, "Birmingham")
    /\ profile \in Profiles
    /\ result = NoResult /\ calls = <<>>
    /\ FetchIdle
    /\ HandlerIdle

Qualify ==
    /\ pc = "call"
    /\ result' = qualifyTender(tender, profile)
    /\ calls' = Append(calls, [tender |-> tender, profile |-> profile, result |-> result'])
    /\ pc' = "done"
    /\ UNCHANGED <<rawRelease, tender, profile>>
    /\ UNCHANGED fetchVars
    /\ UNCHANGED handlerVars

NextQualify == Qualify

SpecQualify == InitQualify /\ [][NextQualify]_vars

-----------------------------------------------------------------------------
(* Specification SpecRepeat: qualifyTender is called again on the same      *)
(* tender, with the same profile or with another yearsAdaptations.          *)

InitRepeat ==
    /\ pc = "call"
    /\ rawRelease \in QualifyReleases
    /\ tender = NormalizeRelease(rawRelease, "Birmingham")
    /\ profile \in RepeatProfiles
    /\ result = NoResult /\ calls = <<>>
    /\ FetchIdle
    /\ HandlerIdle

\* The caller builds the next profile: the same fields, and any years of
\* experience (the same number included).
CallAgain ==
    /\ pc = "done"
    /\ Len(calls) < MaxCalls
    /\ \E y \in {q.yearsAdaptations : q \in RepeatProfiles} :
        profile' = [profile EXCEPT !.yearsAdaptations = y]
    /\ pc' = "call"
    /\ UNCHANGED <<rawRelease, tender, result, calls>>
    /\ UNCHANGED fetchVars
    /\ UNCHANGED handlerVars

NextRepeat == Qualify \/ CallAgain

SpecRepeat == InitRepeat /\ [][NextRepeat]_vars

-----------------------------------------------------------------------------
(* Specification SpecHandler: one request to api/check-tenders-direct.js.   *)

\* The place of x in a list sorted by score, highest first: after the elements
\* that do not score less (Array.prototype.sort is stable).
RECURSIVE InsertByScore(_, _)
InsertByScore(sorted, x) ==
    IF sorted = <<>> THEN <<x>>
    ELSE IF sorted[Len(sorted)].score >= x.score THEN Append(sorted, x)
    ELSE Append(InsertByScore(SubSeq(sorted, 1, Len(sorted) - 1), x), sorted[Len(sorted)])

\* qualifications.sort((a, b) => b.score - a.score), line 25
RECURSIVE SortByScore(_)
SortByScore(qs) ==
    IF qs = <<>> THEN <<>>
    ELSE InsertByScore(SortByScore(SubSeq(qs, 1, Len(qs) - 1)), qs[Len(qs)])

\* TopMatches without the slice.
TopMatches_Unsliced(qs) == qs

\* qualifications.slice(0, 5), line 28
TopMatches(qs) == SubSeq(qs, 1, IF Len(qs) < 5 THEN Len(qs) ELSE 5)

\* !profile, line 8: a profile object is truthy
NoProfile(x) == IF "t" \in DOMAIN x THEN ~Truthy(x) ELSE FALSE

\* tenders.map(tender => qualifyTender(tender, profile)), lines 20-22
RECURSIVE QualifyAll(_, _)
QualifyAll(tenders, p) ==
    IF tenders = <<>> THEN <<>>
    ELSE Append(QualifyAll(SubSeq(tenders, 1, Len(tenders) - 1), p),
                qualifyTender(tenders[Len(tenders)], p))

\* handler(req, res), lines 1-36, on the tenders the fetch stage resolved to
Handler(request, tenders) ==
    IF request.method # "POST" THEN [status |-> 405, matches |-> <<>>]
    ELSE IF NoProfile(request.profile) THEN [status |-> 400, matches |-> <<>>]
    ELSE LET qualifications == QualifyAll(tenders, request.profile)
         IN IF \E i \in 1..Len(tenders) : qualifications[i].threw
            THEN [status |-> 500, matches |-> <<>>]
            ELSE [status |-> 200, matches |-> TopMatches(SortByScore(qualifications))]

InitHandler ==
    /\ pc = "request"
    /\ req \in Requests
    /\ res = NoAnswer
    /\ returned \in HandlerTenders
    /\ variant = "none" /\ locIdx = 0 /\ allTenders = <<>> /\ seenIds = {}
    /\ now = 0 /\ uniqueTenders = <<>>
    /\ fetched = 0 /\ firstSeen = <<>> /\ evalAt = <<>>
    /\ response = NoResponse
    /\ QualifyIdle

HandleRequest ==
    /\ pc = "request"
    /\ res' = Handler(req, returned)
    /\ pc' = "responded"
    /\ UNCHANGED req
    /\ UNCHANGED qualifyVars
    /\ UNCHANGED fetchVars

NextHandler == HandleRequest

SpecHandler == InitHandler /\ [][NextHandler]_vars

-----------------------------------------------------------------------------
(* Specification SpecFetch: one run of fetchAdaptationTenders, in the       *)
(* seenIds variant (part_001:55-138) or the MVP variant (part_001:675-743). *)
(* One step is one iteration of the for loop: the awaited fetch, the        *)
(* awaited json(), and the synchronous map/filter/push that follows.        *)

InitFetch ==
    /\ pc = "loop"
    /\ variant \in {"seenIds", "mvp"}
    /\ locIdx = 1
    /\ allTenders = <<>> /\ seenIds = {}
    /\ now = NowStart
    /\ uniqueTenders = <<>> /\ returned = <<>>
    /\ fetched = 0 /\ firstSeen = <<>> /\ evalAt = <<>>
    /\ response = NoResponse
    /\ HandlerIdle
    /\ QualifyIdle

\* CatchOf for a loop body that no try statement encloses.
CatchOf_NoTry(v) == "none"

\* The try statement that catches an exception thrown in the loop body: the
\* function's own (part_001:70/134, lib/contracts-finder.js:104/160), or the one
\* inside the loop of the MVP variant (part_001:695/728).
CatchOf(v) ==
    CASE v = "seenIds" -> "outer"
      [] v = "mvp" -> "inner"
      [] v = "lib" -> "outer"

\* An exception leaves the loop body: the inner catch continues with the next
\* location, the outer catch returns [], and uncaught it rejects the promise.
Throw(v) ==
    CASE CatchOf(v) = "inner" -> locIdx' = locIdx + 1 /\ UNCHANGED <<pc, returned>>
      [] CatchOf(v) = "outer" -> pc' = "done" /\ returned' = <<>> /\ UNCHANGED locIdx
      [] OTHER -> pc' = "rejected" /\ UNCHANGED <<returned, locIdx>>

\* ResponseThrows as if a non-OK status were thrown instead of skipped.
ResponseThrows_NotOk(resp) ==
    \/ resp.kind \in {"throw", "badjson", "notok"}
    \/ resp.kind = "ok" /\ resp.hasReleases /\ FirstNull(resp.releases, 1) # 0

\* The loop body throws before anything is pushed: fetch or json() rejects, the
\* body is not an object, or map reaches a malformed release.
ResponseThrows(resp) ==
    \/ resp.kind \in {"throw", "badjson"}
    \/ resp.kind = "ok" /\ resp.hasReleases /\ FirstNull(resp.releases, 1) # 0

\* The loop body moves on to the next location: `continue` after !response.ok,
\* or data.releases is not there.
ResponseSkipped(resp) == resp.kind = "notok" \/ (resp.kind = "ok" /\ ~resp.hasReleases)

\* One iteration of part_001:74-129 on the response resp.
FetchLocationBody(resp) ==
    IF ResponseThrows(resp)
    THEN /\ Throw("seenIds")
         /\ UNCHANGED <<allTenders, seenIds, fetched, firstSeen, evalAt>>
    ELSE IF ResponseSkipped(resp)
    THEN /\ locIdx' = locIdx + 1
         /\ UNCHANGED <<pc, returned, allTenders, seenIds, fetched, firstSeen, evalAt>>
    ELSE LET tenders == MapReleases(resp.releases, WEST_MIDLANDS_COUNCILS[locIdx])
             f == FilterTenders(tenders, seenIds, now)
         IN /\ allTenders' = allTenders \o f.kept
            /\ seenIds' = f.seen
            /\ fetched' = fetched + Len(tenders)
            /\ firstSeen' = RecordFirst(firstSeen, tenders)
            /\ evalAt' = evalAt \o [i \in 1..Len(f.kept) |-> now]
            /\ locIdx' = locIdx + 1
            /\ UNCHANGED <<pc, returned>>

\* One iteration of part_001:683-732 on the response resp.  The tenders forEach
\* pushed before a malformed release stay in allTenders.
FetchLocationMVPBody(resp) ==
    IF resp.kind \in {"throw", "badjson"}
    THEN /\ Throw("mvp")
         /\ UNCHANGED <<allTenders, seenIds, fetched, firstSeen, evalAt>>
    ELSE IF ResponseSkipped(resp)
    THEN /\ locIdx' = locIdx + 1
         /\ UNCHANGED <<pc, returned, allTenders, seenIds, fetched, firstSeen, evalAt>>
    ELSE LET n == FirstNull(resp.releases, 1)
             done == IF n = 0 THEN resp.releases ELSE SubSeq(resp.releases, 1, n - 1)
             tenders == MapReleases(done, WEST_MIDLANDS_COUNCILS[locIdx])
             a == AddTenders(tenders, seenIds, now)
         IN /\ allTenders' = allTenders \o a.kept
            /\ seenIds' = a.seen
            /\ fetched' = fetched + Len(tenders)
            /\ firstSeen' = RecordFirst(firstSeen, tenders)
            /\ evalAt' = evalAt \o [i \in 1..Len(a.kept) |-> now]
            /\ IF n = 0 THEN locIdx' = locIdx + 1 /\ UNCHANGED <<pc, returned>>
               ELSE Throw("mvp")

\* One iteration of lib/contracts-finder.js:108-144 on the response resp.
FetchLocationLibBody(resp) ==
    IF ResponseThrows(resp)
    THEN /\ Throw("lib")
         /\ UNCHANGED allTenders
    ELSE IF ResponseSkipped(resp)
    THEN /\ locIdx' = locIdx + 1
         /\ UNCHANGED <<pc, returned, allTenders>>
    ELSE /\ allTenders' = allTenders \o
                [i \in 1..Len(resp.releases) |->
                    NormalizeReleaseLib(resp.releases[i], WEST_MIDLANDS_COUNCILS[locIdx])]
         /\ locIdx' = locIdx + 1
         /\ UNCHANGED <<pc, returned>>

\* part_001:74-129, the catch of line 134 included
FetchLocation ==
    /\ pc = "loop" /\ variant = "seenIds"
    /\ locIdx <= Len(WEST_MIDLANDS_COUNCILS)
    /\ \E resp \in Responses(FetchReleases, MaxReleases - fetched) : FetchLocationBody(resp)
    /\ UNCHANGED <<variant, now, uniqueTenders, response>>
    /\ UNCHANGED qualifyVars
    /\ UNCHANGED handlerVars

\* part_001:683-732
FetchLocationMVP ==
    /\ pc = "loop" /\ variant = "mvp"
    /\ locIdx <= Len(WEST_MIDLANDS_COUNCILS)
    /\ \E resp \in Responses(FetchReleases, MaxReleases - fetched) : FetchLocationMVPBody(resp)
    /\ UNCHANGED <<variant, now, uniqueTenders, response>>
    /\ UNCHANGED qualifyVars
    /\ UNCHANGED handlerVars

\* A day passes while a fetch is awaited: new Date() reads a later clock from
\* here on.
ClockTick ==
    /\ pc = "loop" /\ variant \in {"seenIds", "mvp"}
    /\ now < NowStart + MaxTicks
    /\ now' = now + 1
    /\ UNCHANGED <<pc, variant, locIdx, allTenders, seenIds, uniqueTenders, returned, fetched,
                   firstSeen, evalAt, response>>
    /\ UNCHANGED qualifyVars
    /\ UNCHANGED handlerVars

\* return allTenders, part_001:132 and 737
ReturnTenders ==
    /\ pc = "loop" /\ variant \in {"seenIds", "mvp"}
    /\ locIdx > Len(WEST_MIDLANDS_COUNCILS)
    /\ returned' = allTenders
    /\ pc' = "done"
    /\ UNCHANGED <<variant, locIdx, allTenders, seenIds, now, uniqueTenders, fetched,
                   firstSeen, evalAt, response>>
    /\ UNCHANGED qualifyVars
    /\ UNCHANGED handlerVars

NextFetch == FetchLocation \/ FetchLocationMVP \/ ClockTick \/ ReturnTenders

SpecFetch == InitFetch /\ [][NextFetch]_vars

-----------------------------------------------------------------------------
(* Specification SpecLib: one run of fetchAdaptationTenders of              *)
(* lib/contracts-finder.js:72-164.                                          *)

InitLib ==
    /\ pc = "loop"
    /\ variant = "lib"
    /\ locIdx = 1
    /\ allTenders = <<>> /\ seenIds = {}
    /\ now = NowStart
    /\ uniqueTenders = <<>> /\ returned = <<>>
    /\ fetched = 0 /\ firstSeen = <<>> /\ evalAt = <<>>
    /\ response = NoResponse
    /\ HandlerIdle
    /\ QualifyIdle

\* lib/contracts-finder.js:108-144, the catch of line 160 included
FetchLocationLib ==
    /\ pc = "loop" /\ variant = "lib"
    /\ locIdx <= Len(WEST_MIDLANDS_COUNCILS)
    /\ \E resp \in Responses(LibReleases, MaxReleases - Len(allTenders)) :
        FetchLocationLibBody(resp)
    /\ UNCHANGED <<variant, seenIds, now, uniqueTenders, fetched, firstSeen, evalAt, response>>
    /\ UNCHANGED qualifyVars
    /\ UNCHANGED handlerVars

\* lib/contracts-finder.js:146-158: dedupe, filter, return.  new Date() is read
\* here only, after the fetches: up to MaxTicks days have passed since the start.
FinishLib ==
    /\ pc = "loop" /\ variant = "lib"
    /\ locIdx > Len(WEST_MIDLANDS_COUNCILS)
    /\ \E clock \in NowStart..(NowStart + MaxTicks) :
        /\ now' = clock
        /\ uniqueTenders' = UniqueTenders(allTenders)
        /\ returned' = OpenTenders(UniqueTenders(allTenders), clock)
    /\ pc' = "done"
    /\ UNCHANGED <<variant, locIdx, allTenders, seenIds, fetched, firstSeen, evalAt, response>>
    /\ UNCHANGED qualifyVars
    /\ UNCHANGED handlerVars

NextLib == FetchLocationLib \/ FinishLib

SpecLib == InitLib /\ [][NextLib]_vars

-----------------------------------------------------------------------------
(* Specification SpecOutcome: one run of fetchAdaptationTenders in any of   *)
(* the three variants, the response each query got being kept for the       *)
(* properties to read.                                                      *)

InitOutcome ==
    /\ pc = "loop"
    /\ variant \in {"seenIds", "mvp", "lib"}
    /\ locIdx = 1
    /\ allTenders = <<>> /\ seenIds = {}
    /\ now = NowStart
    /\ uniqueTenders = <<>> /\ returned = <<>>
    /\ fetched = 0 /\ firstSeen = <<>> /\ evalAt = <<>>
    /\ response = NoResponse
    /\ HandlerIdle
    /\ QualifyIdle

QueryLocation ==
    /\ pc = "loop" /\ variant = "seenIds"
    /\ locIdx <= Len(WEST_MIDLANDS_COUNCILS)
    /\ \E resp \in Responses(OutcomeReleases, MaxReleases - fetched) :
        FetchLocationBody(resp) /\ response' = resp
    /\ UNCHANGED <<variant, now, uniqueTenders>>
    /\ UNCHANGED qualifyVars
    /\ UNCHANGED handlerVars

QueryLocationMVP ==
    /\ pc = "loop" /\ variant = "mvp"
    /\ locIdx <= Len(WEST_MIDLANDS_COUNCILS)
    /\ \E resp \in Responses(OutcomeReleases, MaxReleases - fetched) :
        FetchLocationMVPBody(resp) /\ response' = resp
    /\ UNCHANGED <<variant, now, uniqueTenders>>
    /\ UNCHANGED qualifyVars
    /\ UNCHANGED handlerVars

QueryLocationLib ==
    /\ pc = "loop" /\ variant = "lib"
    /\ locIdx <= Len(WEST_MIDLANDS_COUNCILS)
    /\ \E resp \in Responses(OutcomeReleases, MaxReleases - Len(allTenders)) :
        FetchLocationLibBody(resp) /\ response' = resp
    /\ UNCHANGED <<variant, seenIds, now, uniqueTenders, fetched, firstSeen, evalAt>>
    /\ UNCHANGED qualifyVars
    /\ UNCHANGED handlerVars

NextOutcome ==
    QueryLocation \/ QueryLocationMVP \/ QueryLocationLib \/ ReturnTenders \/ FinishLib

SpecOutcome == InitOutcome /\ [][NextOutcome]_vars

\* Every awaited fetch and json() settles, so the running function takes its
\* next step.
SpecOutcomeFair == SpecOutcome /\ WF_vars(NextOutcome)

-----------------------------------------------------------------------------
(* Specification SpecTender: one release is normalized, by a part_001        *)
(* variant or by lib/contracts-finder.js, and one of the two predicates of  *)
(* part_001 is called on the tender.                                        *)

InitTender ==
    /\ pc = "raw"
    /\ rawRelease \in TenderReleases
    /\ tender = JUndefined /\ profile = JUndefined /\ result = NoResult /\ calls = <<>>
    /\ variant = "none" /\ locIdx = 1
    /\ allTenders = <<>> /\ seenIds = {}
    /\ now \in NowStart..(NowStart + MaxTicks)
    /\ uniqueTenders = <<>> /\ returned = <<>>
    /\ fetched = 0 /\ firstSeen = <<>> /\ evalAt = <<>>
    /\ response = NoResponse
    /\ HandlerIdle

\* part_001:95-104
NormalizeTender ==
    /\ pc = "raw"
    /\ tender' = NormalizeRelease(rawRelease, WEST_MIDLANDS_COUNCILS[locIdx])
    /\ variant' = "seenIds"
    /\ pc' = "tender"
    /\ UNCHANGED <<rawRelease, profile, result, calls, locIdx, allTenders, seenIds, now,
                   uniqueTenders, returned, fetched, firstSeen, evalAt, response>>
    /\ UNCHANGED handlerVars

\* lib/contracts-finder.js:127-140
NormalizeTenderLib ==
    /\ pc = "raw"
    /\ tender' = NormalizeReleaseLib(rawRelease, WEST_MIDLANDS_COUNCILS[locIdx])
    /\ variant' = "lib"
    /\ pc' = "tender"
    /\ UNCHANGED <<rawRelease, profile, result, calls, locIdx, allTenders, seenIds, now,
                   uniqueTenders, returned, fetched, firstSeen, evalAt, response>>
    /\ UNCHANGED handlerVars

\* hasFutureDeadline(tender), part_001:112
CallHasFutureDeadline ==
    /\ pc = "tender" /\ variant = "seenIds"
    /\ result' = [fn |-> "hasFutureDeadline", value |-> hasFutureDeadline(tender, now)]
    /\ pc' = "done"
    /\ UNCHANGED <<rawRelease, tender, profile, calls>>
    /\ UNCHANGED fetchVars
    /\ UNCHANGED handlerVars

\* isRelevantAdaptationTender(tender), part_001:118
CallIsRelevant ==
    /\ pc = "tender" /\ variant = "seenIds"
    /\ result' = [fn |-> "isRelevantAdaptationTender",
                  value |-> isRelevantAdaptationTender(tender)]
    /\ pc' = "done"
    /\ UNCHANGED <<rawRelease, tender, profile, calls>>
    /\ UNCHANGED fetchVars
    /\ UNCHANGED handlerVars

NextTender == NormalizeTender \/ NormalizeTenderLib \/ CallHasFutureDeadline \/ CallIsRelevant

SpecTender == InitTender /\ [][NextTender]_vars

-----------------------------------------------------------------------------
(* Properties of qualifyTender (SpecQualify) *)

IsNumberBelow(x, k) == x.t = "number" /\ x.v < k
IsNumberAtLeast(x, k) == x.t = "number" /\ x.v >= k

\* The call has been made on a profile that has a location string.
Qualified == pc = "done" /\ profile.location.t = "string"

HardGated(p) == IsNumberBelow(p.publicLiability, 5000000) \/ IsNumberBelow(p.yearsAdaptations, 1)
PassesHardGate(p) ==
    IsNumberAtLeast(p.publicLiability, 5000000) /\ IsNumberAtLeast(p.yearsAdaptations, 1)
HasAllPolicies(p) == p.hasSafeguarding /\ p.hasDBSChecks /\ p.hasHealthSafety
AccreditationCount(p) ==
    Cardinality({a \in {"hasCHAS", "hasSMAS", "hasConstructionline", "hasSafeContractor"} : p[a]})
JurisdictionMatch(t, p) ==
    Includes(ToLowerCase(Chars(p.location.v)), ToLowerCase(Chars(t.location.v)))

\* C1. Hard-gate precedence: whenever publicLiability is below 5,000,000 or
\* yearsAdaptations is below 1, the status qualifyTender returns is red, whatever
\* the score and the other profile fields are.
C1_HardGatePrecedence ==
    (Qualified /\ HardGated(profile)) => (~result.threw /\ result.status = "red")

\* A hard-gated profile (insurance one pound short) whose score is 25 or more.
C1_Witness ==
    /\ Qualified /\ ~result.threw
    /\ profile.publicLiability = JNum(4999999)
    /\ result.score >= 25
    /\ result.status = "red"

\* C2. Soft-gate precedence: a profile that passes the hard gate but lacks one of
\* hasSafeguarding, hasDBSChecks, hasHealthSafety gets amber, never green, however
\* high the score.
C2_SoftGatePrecedence ==
    (Qualified /\ PassesHardGate(profile) /\ ~HasAllPolicies(profile))
        => (~result.threw /\ result.status = "amber")

\* All four accreditations, turnover at 3x the value or more, a location match, and
\* only the safeguarding policy missing.
C2_Witness ==
    /\ Qualified /\ ~result.threw
    /\ PassesHardGate(profile)
    /\ ~profile.hasSafeguarding /\ profile.hasDBSChecks /\ profile.hasHealthSafety
    /\ AccreditationCount(profile) = 4
    /\ tender.value = JNum(100000) /\ profile.turnover = JNum(300000)
    /\ JurisdictionMatch(tender, profile)
    /\ result.score >= 25
    /\ result.status = "amber"

\* C3. Score thresholding: when neither the hard gate nor the soft gate triggers,
\* the status is green iff score >= 25, amber iff 15 <= score < 25, red iff
\* score < 15.
C3_ScoreThresholding ==
    (Qualified /\ ~HardGated(profile) /\ HasAllPolicies(profile))
        => /\ ~result.threw
           /\ result.status = "green" <=> result.score >= 25
           /\ result.status = "amber" <=> (result.score >= 15 /\ result.score < 25)
           /\ result.status = "red" <=> result.score < 15

\* No gate triggers and the score lies between the two thresholds.
C3_Witness ==
    /\ Qualified /\ ~result.threw
    /\ PassesHardGate(profile) /\ HasAllPolicies(profile)
    /\ result.score >= 15 /\ result.score < 25
    /\ result.status = "amber"

AllFieldsPresent(p) ==
    /\ p.turnover.t = "number" /\ p.publicLiability.t = "number"
    /\ p.yearsAdaptations.t = "number" /\ p.location.t = "string"

\* The rule table of the specification, in integer arithmetic.
TableTurnover(t, p) ==
    IF t.value = JNull THEN 0
    ELSE IF p.turnover.v >= 3 * t.value.v THEN 10
    ELSE IF 2 * p.turnover.v >= 3 * t.value.v THEN 5
    ELSE IF p.turnover.v >= t.value.v THEN 2
    ELSE IF 2 * p.turnover.v >= t.value.v THEN -3
    ELSE -10

TableScore(t, p) ==
    TableTurnover(t, p)
    + (IF p.publicLiability.v >= 5000000 THEN 15 ELSE -20)
    + (IF p.yearsAdaptations.v >= 5 THEN 10
       ELSE IF p.yearsAdaptations.v >= 3 THEN 5
       ELSE IF p.yearsAdaptations.v >= 1 THEN -5 ELSE -15)
    + (IF p.hasSafeguarding THEN 8 ELSE -15)
    + (IF p.hasDBSChecks THEN 8 ELSE -10)
    + (IF p.hasHealthSafety THEN 7 ELSE -8)
    + 5 * AccreditationCount(p)
    + (IF JurisdictionMatch(t, p) THEN 3 ELSE 0)

ScenarioA ==
    /\ tender.value = JNum(100000) /\ profile.turnover = JNum(400000)
    /\ profile.publicLiability = JNum(5000000) /\ profile.yearsAdaptations = JNum(6)
    /\ HasAllPolicies(profile) /\ AccreditationCount(profile) = 0
    /\ ~JurisdictionMatch(tender, profile)

\* C4. Score table: for a profile with all fields present the score is the sum of
\* the deltas of the rule table; Scenario A scores 58 and is green.
C4_ScoreTable ==
    (pc = "done" /\ AllFieldsPresent(profile))
        => /\ ~result.threw
           /\ result.score = TableScore(tender, profile)
           /\ ScenarioA => (result.score = 58 /\ result.status = "green")

\* Scenario A has been evaluated.
C4_Witness == pc = "done" /\ AllFieldsPresent(profile) /\ ScenarioA /\ result.score = 58

TurnoverDeltaOf ==
    ("Your turnover (${profile.turnover}) exceeds 3x contract value" :> 10) @@
    ("Your turnover covers contract value with good margin" :> 5) @@
    ("Your turnover matches contract value" :> 2) @@
    ("Your turnover is below contract value - risky" :> (-3)) @@
    ("Your turnover is far below this contract value" :> (-10))

IsTurnoverEntry(text) == text \in DOMAIN TurnoverDeltaOf

\* C5. Turnover rule presence: with a null tender.value the turnover rule adds
\* nothing to the score and no entry to passes or issues; with a non-null value it
\* adds exactly one turnover entry and the delta that goes with it.
C5_TurnoverRulePresence ==
    (pc = "done" /\ ~result.threw)
        => LET entries == SelectSeq(result.passes \o result.issues, IsTurnoverEntry)
               others == SumDeltas(Tail(Rules(tender, profile)))
           IN IF tender.value = JNull
              THEN entries = <<>> /\ result.score = others
              ELSE Len(entries) = 1 /\ result.score = others + TurnoverDeltaOf[entries[1]]

\* An upstream amount of 0 was normalized to a null value and the rule was skipped.
C5_Witness ==
    /\ pc = "done" /\ ~result.threw
    /\ rawRelease.amount = JNum(0) /\ tender.value = JNull
    /\ SelectSeq(result.passes \o result.issues, IsTurnoverEntry) = <<>>

-----------------------------------------------------------------------------
(* Properties of fetchAdaptationTenders, seenIds variants (SpecFetch) *)

\* The run of a seenIds variant has returned.
FetchReturned == pc = "done" /\ variant \in {"seenIds", "mvp"}

\* The place of an id in the order in which the ids were first fetched
RECURSIVE FirstSeenIndex(_, _)
FirstSeenIndex(id, i) ==
    IF i > Len(firstSeen) THEN 0
    ELSE IF firstSeen[i].id = id THEN i ELSE FirstSeenIndex(id, i + 1)

\* C6. Dedup, first occurrence wins (seenIds variants): the returned list holds at
\* most one tender per id, each carries the location of the earliest jurisdiction
\* whose response contained its id, and the tenders are in first-seen order.
C6_DedupFirstWins ==
    FetchReturned =>
        /\ \A i, j \in 1..Len(returned) : returned[i].id = returned[j].id => i = j
        /\ \A i \in 1..Len(returned) :
            /\ FirstSeenIndex(returned[i].id, 1) # 0
            /\ returned[i].location = firstSeen[FirstSeenIndex(returned[i].id, 1)].location
        /\ \A i, j \in 1..Len(returned) :
            i < j => FirstSeenIndex(returned[i].id, 1) < FirstSeenIndex(returned[j].id, 1)

\* C8. First occurrence is authoritative (seenIds variants): a returned tender is
\* the first occurrence of its id, never a later one, also when the first
\* occurrence was rejected by the deadline or the relevance check.
C8_FirstOccurrenceAuthoritative ==
    FetchReturned =>
        \A i \in 1..Len(returned) :
            \E j \in 1..Len(firstSeen) : firstSeen[j] = returned[i]

\* The deadline is there, is a date, and is strictly later than clock.
DeadlineLaterThan(t, clock) ==
    /\ t.deadline.t = "string"
    /\ LET d == DateParse(Chars(t.deadline.v)) IN d.t = "number" /\ d.v > clock

\* C9. Deadline invariant (variants using hasFutureDeadline): every returned
\* tender has a deadline that is present and strictly later than the clock read
\* when the tender was evaluated.
C9_DeadlineInvariant ==
    FetchReturned =>
        /\ Len(returned) <= Len(evalAt)
        /\ \A i \in 1..Len(returned) :
            /\ ~(returned[i].deadline.t \in {"null", "undefined"})
            /\ DeadlineLaterThan(returned[i], evalAt[i])

\* A tender evaluated after a day had passed was returned, and another release of
\* the run was left out.
C9_Witness ==
    /\ FetchReturned
    /\ returned # <<>>
    /\ fetched > Len(returned)
    /\ \E i \in 1..Len(returned) :
        evalAt[i] = NowStart + 1 /\ DeadlineLaterThan(returned[i], evalAt[i])

-----------------------------------------------------------------------------
(* Properties of fetchAdaptationTenders, lib/contracts-finder.js (SpecLib) *)

LibReturned == pc = "done" /\ variant = "lib"

\* The first tender of ts, from place i on, that has the id
RECURSIVE FirstWithId(_, _, _)
FirstWithId(ts, id, i) ==
    IF ts[i].id = id THEN ts[i] ELSE FirstWithId(ts, id, i + 1)

\* C7. Dedup, first occurrence wins (Map-based variant): uniqueTenders holds
\* exactly one tender for each id fetched, and it is the one fetched first.
C7_MapDedupFirstWins ==
    LibReturned =>
        /\ \A i, j \in 1..Len(uniqueTenders) :
            uniqueTenders[i].id = uniqueTenders[j].id => i = j
        /\ \A i \in 1..Len(uniqueTenders) :
            uniqueTenders[i] = FirstWithId(allTenders, uniqueTenders[i].id, 1)

\* C10. Tenders without a usable deadline are excluded (lib variant): every
\* returned tender has a present deadline strictly later than the clock the
\* filter read; none has a null deadline.
C10_LibDeadlinePresent ==
    LibReturned =>
        \A i \in 1..Len(returned) :
            /\ returned[i].deadline # JNull
            /\ DeadlineLaterThan(returned[i], now)

-----------------------------------------------------------------------------
(* Properties of the two predicates (SpecTender) *)

DeadlineCalled == pc = "done" /\ result.fn = "hasFutureDeadline"

\* The time value the deadline string stands for, as a calendar day; -1 when the
\* string is no date.
DayOfDeadline ==
    ("" :> -1) @@ ("TBC" :> -1) @@ ("2026-13-45" :> -1) @@
    ("2026-10-27" :> NowStart - 10) @@ ("2026-11-05" :> NowStart - 1) @@
    ("2026-11-06" :> NowStart) @@ ("2026-11-07" :> NowStart + 1) @@
    ("2026-11-08" :> NowStart + 2)

\* C11. The deadline predicate is fail-closed: hasFutureDeadline is true iff the
\* deadline is present, parses to a valid timestamp and is strictly later than
\* now; absent, unparseable, equal to now, or past, it is false.
C11_DeadlineFailClosed ==
    DeadlineCalled =>
        (result.value <=>
            /\ tender.deadline.t = "string"
            /\ DayOfDeadline[tender.deadline.v] # -1
            /\ DayOfDeadline[tender.deadline.v] > now)

\* A deadline ten days back was rejected.
C11_Witness ==
    /\ DeadlineCalled
    /\ tender.deadline = JStr("2026-10-27") /\ now = NowStart
    /\ result.value = FALSE

RelevanceCalled == pc = "done" /\ result.fn = "isRelevantAdaptationTender"

ContainsAny(text, keywords) ==
    \E i \in 1..Len(keywords) : Includes(text, Chars(keywords[i]))

\* The title, a space and the description, in lower case
TenderText(t) == ToLowerCase(Chars(t.title.v) \o Chars(" ") \o Chars(t.description.v))

\* C12. Relevance decision rule: isRelevantAdaptationTender is true iff the
\* lower-cased title and description contain a core keyword and no exclusion
\* keyword; an exclusion match overrides a core match.
C12_RelevanceRule ==
    RelevanceCalled =>
        (result.value <=>
            /\ ContainsAny(TenderText(tender), CORE_ADAPTATION_KEYWORDS)
            /\ ~ContainsAny(TenderText(tender), EXCLUDE_KEYWORDS))

\* Scenario D: "it system" in the title, "adaptation" in the description, rejected.
C12_Witness ==
    /\ RelevanceCalled
    /\ tender.title = JStr("IT system maintenance contract")
    /\ tender.description = JStr("Includes adaptation works")
    /\ result.value = FALSE

-----------------------------------------------------------------------------
(* Further properties of fetchAdaptationTenders (SpecFetch, SpecLib) *)

\* C13. Irrelevant tenders are discarded: in both multi-jurisdiction variants of
\* part_001 every returned tender has a core keyword and no exclusion keyword in
\* its title and description.
C13_ReturnedAreRelevant ==
    FetchReturned =>
        \A i \in 1..Len(returned) :
            /\ ContainsAny(TenderText(returned[i]), CORE_ADAPTATION_KEYWORDS)
            /\ ~ContainsAny(TenderText(returned[i]), EXCLUDE_KEYWORDS)

\* The list a run that went through every location returns
ListOfRun ==
    IF variant = "lib" THEN OpenTenders(UniqueTenders(allTenders), now) ELSE allTenders

AllQueried == locIdx > Len(WEST_MIDLANDS_COUNCILS)

HttpFailure(r) == r.kind = "notok" \/ (r.kind = "ok" /\ ~r.hasReleases)

\* C14. HTTP failure or missing releases is isolated: a query answered with a
\* non-OK status or without a releases collection adds no tender, the loop goes
\* on with the next location, and a run that went through every location
\* returns the tenders accepted from the others.
C14_HttpFailureIsolated ==
    /\ [][(pc = "loop" /\ ~AllQueried /\ HttpFailure(response'))
            => /\ pc' = "loop"
               /\ locIdx' = locIdx + 1
               /\ allTenders' = allTenders
               /\ returned' = returned]_vars
    /\ [](pc = "done" /\ AllQueried => returned = ListOfRun)

\* The last location answered with a failure and the run returned the tenders
\* of earlier locations.
C14_Witness ==
    /\ pc = "done" /\ AllQueried
    /\ HttpFailure(response)
    /\ returned # <<>> /\ returned = ListOfRun

NetworkFailure(r) == r.kind \in {"throw", "badjson"}

\* C15. Network or parse failure is isolated: when fetch throws or json() fails
\* for a location, that location adds no tender, the loop goes on with the next
\* one, and the tenders accepted before are in the returned list.
C15_NetworkFailureIsolated ==
    /\ [][(pc = "loop" /\ ~AllQueried /\ NetworkFailure(response'))
            => /\ pc' = "loop"
               /\ locIdx' = locIdx + 1
               /\ allTenders' = allTenders]_vars
    /\ [](pc = "done" /\ NetworkFailure(response) => AllQueried /\ returned = ListOfRun)

\* C16. The fetch stage never crashes the run: whatever the locations answer
\* (releases, no releases, a non-OK status, a network error, an unparseable
\* body, malformed releases), the part_001 variants of fetchAdaptationTenders
\* end by resolving to a list and never reject.
C16_FetchNeverCrashes ==
    /\ [](variant \in {"seenIds", "mvp"} => pc \in {"loop", "done"})
    /\ [](variant \in {"seenIds", "mvp"} /\ pc = "done" => DOMAIN returned = 1..Len(returned))
    /\ <>(variant \in {"seenIds", "mvp"} => pc = "done")

\* A run whose last location sent a malformed release has resolved to a list.
C16_Witness ==
    /\ pc = "done" /\ variant \in {"seenIds", "mvp"}
    /\ response.kind = "ok" /\ response.hasReleases /\ FirstNull(response.releases, 1) # 0
    /\ DOMAIN returned = 1..Len(returned)

-----------------------------------------------------------------------------
(* Properties of repeated calls of qualifyTender (SpecRepeat) *)

\* Two profiles that differ in yearsAdaptations at most
SameButYears(p, q) == [p EXCEPT !.yearsAdaptations = q.yearsAdaptations] = q

\* C17. Monotonicity in experience: on the same tender, with every other field
\* of the profile the same, a larger yearsAdaptations never gives a smaller
\* score.
C17_ExperienceMonotone ==
    \A i, j \in 1..Len(calls) :
        (/\ calls[i].tender = calls[j].tender
         /\ SameButYears(calls[i].profile, calls[j].profile)
         /\ calls[i].profile.yearsAdaptations.t = "number"
         /\ calls[j].profile.yearsAdaptations.t = "number"
         /\ calls[i].profile.yearsAdaptations.v <= calls[j].profile.yearsAdaptations.v
         /\ ~calls[i].result.threw /\ ~calls[j].result.threw)
            => calls[i].result.score <= calls[j].result.score

\* The years went from 2 to 6 and the score went up.
C17_Witness ==
    /\ Len(calls) >= 2
    /\ calls[1].profile.yearsAdaptations = JNum(2)
    /\ calls[2].profile.yearsAdaptations = JNum(6)
    /\ ~calls[1].result.threw
    /\ calls[1].result.score < calls[2].result.score

-----------------------------------------------------------------------------
(* Properties of the check-tenders handler (SpecHandler) *)

\* The profile is absent, or lacks one of the fields the scoring reads.
InvalidProfile(p) ==
    IF "t" \in DOMAIN p THEN p \in {JUndefined, JNull}
    ELSE
    \/ p.location.t = "undefined"
    \/ p.turnover.t = "undefined"
    \/ p.publicLiability.t = "undefined"
    \/ p.yearsAdaptations.t = "undefined"

\* C19. Invalid caller input is rejected: a request whose profile is absent or
\* lacks a required field is answered with a 4xx status, never with 500 and
\* never with a list of matches, whatever tenders were fetched.
C19_InvalidProfileRejected ==
    (pc = "responded" /\ req.method = "POST" /\ InvalidProfile(req.profile))
        => (res.status \in 400..499 /\ res.matches = <<>>)

-----------------------------------------------------------------------------
(* Properties of the normalizer (SpecTender) *)

\* The field when it is there, the default when it is absent upstream
OrDefault(x, default) == IF Truthy(x) THEN x ELSE default

\* C20. Normalizer deadline selection: the tender's deadline is the enquiry
\* period's end date when there is one, else the tender period's end date, and
\* exactly null when there is neither; title, description, buyer and value
\* default to 'Untitled', '', 'Unknown' and null.
C20_NormalizerDeadline ==
    (pc \in {"tender", "done"} /\ variant \in {"seenIds", "lib"})
        => /\ tender.deadline =
                OrDefault(rawRelease.enquiryEnd, OrDefault(rawRelease.tenderEnd, JNull))
           /\ tender.title = OrDefault(rawRelease.title, JStr("Untitled"))
           /\ tender.description = OrDefault(rawRelease.description, JStr(""))
           /\ tender.buyer = OrDefault(rawRelease.buyerName, JStr("Unknown"))
           /\ tender.value = OrDefault(rawRelease.amount, JNull)

-----------------------------------------------------------------------------
(* Further properties of qualifyTender (SpecQualify) *)

\* The score without the location bonus: the deltas of every rule before it
ScoreBeforeLocation(t, p) ==
    LET rs == Rules(t, p) IN SumDeltas(SubSeq(rs, 1, Len(rs) - 1))

HasLocalPass == \E i \in 1..Len(result.passes) : result.passes[i] = "Local to ${tender.location}"

\* The bonus was added: +3 and the pass; nothing was added: neither.
BonusAdded ==
    result.score = ScoreBeforeLocation(tender, profile) + 3 /\ HasLocalPass
NothingAdded ==
    result.score = ScoreBeforeLocation(tender, profile) /\ ~HasLocalPass

\* The profile's jurisdiction contains the tender's, character for character.
ExactJurisdictionMatch(t, p) == Includes(Chars(p.location.v), Chars(t.location.v))

\* C21 as stated. Jurisdiction bonus: +3 and the 'Local to ...' pass iff the
\* profile's jurisdiction string contains the tender's jurisdiction string in
\* its exact characters; nothing otherwise.
C21_JurisdictionBonusExact ==
    Qualified =>
        IF ExactJurisdictionMatch(tender, profile) THEN BonusAdded ELSE NothingAdded

\* C21 as amended. Jurisdiction bonus: +3 and the 'Local to ...' pass iff the
\* profile's jurisdiction string contains the tender's jurisdiction string when
\* both are put in lower case; nothing otherwise.
C21_JurisdictionBonus ==
    Qualified =>
        IF JurisdictionMatch(tender, profile) THEN BonusAdded ELSE NothingAdded

\* A profile in 'birmingham' got the bonus on a tender of 'Birmingham'.
C21_Witness ==
    /\ Qualified
    /\ profile.location = JStr("birmingham") /\ tender.location = JStr("Birmingham")
    /\ BonusAdded

\* C23. Disqualification comes only from the hard gate: on a profile with all
\* fields present the status is red iff publicLiability is below 5,000,000 or
\* yearsAdaptations is below 1; when neither the hard gate nor the soft gate
\* triggers the score is at least 23, hence at least 15, and the branch of a
\* score below 15 is not taken.
C23_RedOnlyFromHardGate ==
    (Qualified /\ AllFieldsPresent(profile))
        => /\ ~result.threw
           /\ result.status = "red" <=> HardGated(profile)
           /\ (~HardGated(profile) /\ HasAllPolicies(profile))
                 => (result.score >= 23 /\ result.score >= 15)

\* The lowest score without a gate: turnover far below the value, one year of
\* experience, no accreditation, another jurisdiction; 23 points, amber.
C23_Witness ==
    /\ Qualified /\ AllFieldsPresent(profile)
    /\ ~HardGated(profile) /\ HasAllPolicies(profile)
    /\ result.score = 23
    /\ result.status = "amber"

HasIssue(text) == \E i \in 1..Len(result.issues) : result.issues[i] = text

\* C24. Scoring rule and hard gate agree for every profile, publicLiability or
\* yearsAdaptations absent included: a result that lists the insurance issue or
\* the insufficient-experience issue is red; a green or amber result lists
\* neither.
C24_GateIssuesAreRed ==
    (Qualified /\ ~result.threw)
        => ((\/ HasIssue("You need ${requiredInsurance} public liability insurance")
             \/ HasIssue("Insufficient experience in adaptation work"))
               => result.status = "red")

-----------------------------------------------------------------------------
(* Further properties of the handler (SpecHandler) *)

\* The results the handler computed: one per fetched tender, in fetch order
Qualifications == QualifyAll(returned, req.profile)

\* The bag of the elements of a list
BagOfSeq(qs) ==
    [x \in {qs[i] : i \in 1..Len(qs)} |-> Cardinality({i \in 1..Len(qs) : qs[i] = x})]

Answered200 == pc = "responded" /\ res.status = 200

\* C22. Ranked output of the handler: the matches returned with status 200 are
\* at most 5 of the computed results (all of them when fewer were computed, of
\* whatever status), in order of non-increasing score, and no computed result
\* left out scores more than a returned one.
C22_RankedOutput ==
    Answered200 =>
        LET ms == res.matches
            qs == Qualifications
            rest == BagOfSeq(qs) (-) BagOfSeq(ms)
        IN /\ Len(ms) <= 5
           /\ Len(ms) = IF Len(qs) < 5 THEN Len(qs) ELSE 5
           /\ BagOfSeq(ms) \sqsubseteq BagOfSeq(qs)
           /\ \A i \in 1..(Len(ms) - 1) : ms[i].score >= ms[i + 1].score
           /\ \A q \in BagToSet(rest) : \A i \in 1..Len(ms) : q.score <= ms[i].score

\* Six tenders were scored, five results came back, the lowest-scoring one was
\* left out, and the results that came back are red.
C22_Witness ==
    /\ Answered200
    /\ Len(returned) = 6 /\ Len(res.matches) = 5
    /\ res.matches[1].score > res.matches[5].score
    /\ \E i \in 1..6 : Qualifications[i].score < res.matches[5].score
    /\ \A i \in 1..5 : res.matches[i].status = "red"

-----------------------------------------------------------------------------
(* Further properties of the fetch loop (SpecFetch) *)

IdsOf(ts) == {ts[i].id : i \in 1..Len(ts)}

NoTwoWithSameId(ts) == \A i, j \in 1..Len(ts) : ts[i].id = ts[j].id => i = j

\* allTenders is only pushed to and seenIds only added to
FetchOnlyAdds ==
    /\ Len(allTenders') >= Len(allTenders)
    /\ SubSeq(allTenders', 1, Len(allTenders)) = allTenders
    /\ seenIds \subseteq seenIds'

\* C25. Identity-set invariant of the fetch loop: at the end of each
\* jurisdiction's iteration seenIds is exactly the set of the ids of the tenders
\* in allTenders, allTenders holds no two tenders with the same id, and neither
\* allTenders nor seenIds loses an element in any step of the run.
C25_IdentitySet ==
    /\ [](seenIds = IdsOf(allTenders) /\ NoTwoWithSameId(allTenders))
    /\ [][FetchOnlyAdds]_vars

\* Two releases with the same id came back; the tender of the first was accepted
\* and the loop went on.
C25_Witness ==
    /\ variant \in {"seenIds", "mvp"}
    /\ fetched = 2 /\ Len(firstSeen) = 1
    /\ Len(allTenders) = 1 /\ seenIds = {allTenders[1].id}
    /\ locIdx > 1

=============================================================================
